---- MODULE Spec2Model ----
(***************************************************************************)
(* Model of lnurl-nfc (src/src/index.ts): the LnurlReader session, the     *)
(* lnurl decoder and the two-round withdraw client handleLNURL /           *)
(* handlePayment.                                                          *)
(*                                                                         *)
(* JavaScript strings are sequences of one-character strings, so that      *)
(* slicing, searching and replacing are computed as the code computes      *)
(* them.                                                                   *)
(***************************************************************************)
EXTENDS Integers, Sequences, FiniteSets, TLC

(***************************************************************************)
(* Bounds of the model.                                                    *)
(***************************************************************************)
\* startListening calls made on one session
MaxCalls == 2
\* records carried by one read event
MaxRecords == 2
\* caller-supplied cancellation tokens (AbortSignals)
MaxTokens == 1
\* listenOnce calls made on one session
MaxOnce == 1
MaxTail == 1

(***************************************************************************)
(* String primitives, as String.prototype defines them.                    *)
(***************************************************************************)
UpperChars == <<"A","B","C","D","E","F","G","H","I","J","K","L","M","N","O","P","Q","R","S","T","U","V","W","X","Y","Z">>
LowerChars == <<"a","b","c","d","e","f","g","h","i","j","k","l","m","n","o","p","q","r","s","t","u","v","w","x","y","z">>

\* the lower-case letter of each upper-case letter, and the reverse
LowerOf ==
  [c \in {UpperChars[i] : i \in 1..Len(UpperChars)} |->
     LowerChars[CHOOSE i \in 1..Len(UpperChars) : UpperChars[i] = c]]

UpperOf ==
  [c \in {LowerChars[i] : i \in 1..Len(LowerChars)} |->
     UpperChars[CHOOSE i \in 1..Len(LowerChars) : LowerChars[i] = c]]

LowerChar(c) == IF c \in DOMAIN LowerOf THEN LowerOf[c] ELSE c

UpperChar(c) == IF c \in DOMAIN UpperOf THEN UpperOf[c] ELSE c

\* s.toLowerCase()
toLowerCase(s) == [i \in 1..Len(s) |-> LowerChar(s[i])]

\* s.toUpperCase()
toUpperCase(s) == [i \in 1..Len(s) |-> UpperChar(s[i])]

\* s.startsWith(p)
startsWith(s, p) == Len(s) >= Len(p) /\ SubSeq(s, 1, Len(p)) = p

\* s.endsWith(p)
endsWith(s, p) == Len(s) >= Len(p) /\ SubSeq(s, Len(s) - Len(p) + 1, Len(s)) = p

\* the 0-based positions at which p occurs in s
Occurrences(s, p) ==
  {i \in 0..(Len(s) - Len(p)) : SubSeq(s, i + 1, i + Len(p)) = p}

\* s.indexOf(p): 0-based position of the first occurrence, -1 when there is none
indexOf(s, p) ==
  IF Occurrences(s, p) = {} THEN -1
  ELSE CHOOSE i \in Occurrences(s, p) : \A j \in Occurrences(s, p) : i <= j

\* s.slice(n)
slice(s, n) == IF n >= Len(s) THEN <<>> ELSE SubSeq(s, n + 1, Len(s))

\* s.replace(p, ''): removes the first occurrence of the string p, wherever it is
replaceFirst(s, p) ==
  IF indexOf(s, p) = -1 THEN s
  ELSE SubSeq(s, 1, indexOf(s, p)) \o slice(s, indexOf(s, p) + Len(p))

(***************************************************************************)
(* String literals of the program.                                         *)
(***************************************************************************)
sLightning == <<"l","i","g","h","t","n","i","n","g",":">>
sLnurlw == <<"l","n","u","r","l","w",":","/","/">>
sLnurl == <<"l","n","u","r","l">>
sHttps == <<"h","t","t","p","s",":","/","/">>
sHttp == <<"h","t","t","p",":","/","/">>
sOnionEnd == <<".","o","n","i","o","n">>
sOnionSlash == <<".","o","n","i","o","n","/">>
sOnionQuery == <<".","o","n","i","o","n","?">>
sColon == <<":">>

(***************************************************************************)
(* JavaScript values handed to the decoder and to the withdraw client.     *)
(***************************************************************************)
\* A value: its type and, for a string or a number, its text.
Undefined == [t |-> "undefined", s |-> <<>>]
Null == [t |-> "null", s |-> <<>>]
Str(s) == [t |-> "string", s |-> s]
Num(s) == [t |-> "number", s |-> s]

\* !!v
Truthy(v) ==
  IF v.t \in {"undefined", "null"} THEN FALSE
  ELSE IF v.t = "string" THEN v.s # <<>>
  ELSE IF v.t = "number" THEN v.s # <<"0">>
  ELSE TRUE

\* typeof v === 'string'
IsString(v) == v.t = "string"

\* a value that is neither a string nor a number, such as {}
Object == [t |-> "object", s |-> <<>>]

(***************************************************************************)
(* The decoder: _isOnion, isValidLnurl, bech32Decode, decodeLnurl.         *)
(***************************************************************************)
\* _isOnion(potentialOnion)
_isOnion(potentialOnion) ==
  /\ potentialOnion # <<>>
  /\ LET lowercase == toLowerCase(potentialOnion) IN
       \/ endsWith(lowercase, sOnionEnd)
       \/ indexOf(lowercase, sOnionSlash) >= 0
       \/ indexOf(lowercase, sOnionQuery) >= 0

\* isValidLnurl accepting every text that is not empty
isValidLnurlAnyText(lnurl) == lnurl # <<>>

\* isValidLnurl(lnurl)
isValidLnurl(lnurl) ==
  /\ lnurl # <<>>
  /\ \/ startsWith(lnurl, sHttps)
     \/ startsWith(lnurl, sHttp) /\ _isOnion(lnurl)

\* The checksum-valid codewords of the bech32 library that the model knows, in
\* lower case, each with the text its words decode to (utf8 = FALSE: the bytes
\* are not valid UTF-8).
Bech32Codewords ==
  { [code |-> <<"l","n","u","r","l","1","d","p","6","8","g","u","r","n","8","g","h","j","7","c","n","f","w","3","3","k","7","6","t","w","9","e","h","h","y","e","c","k","q","6","8","6","4">>, utf8 |-> TRUE,
     text |-> <<"h","t","t","p","s",":","/","/","b","i","t","c","o","i","n",".","o","r","g">>],
    [code |-> <<"l","n","u","r","l","1","d","p","6","8","g","u","p","6","9","u","h","k","y","6","t","5","v","d","h","k","j","m","3","w","d","a","e","x","w","2","8","j","5","f","z">>, utf8 |-> TRUE,
     text |-> <<"h","t","t","p",":","/","/","b","i","t","c","o","i","n",".","o","r","g">>],
    [code |-> <<"l","n","u","r","l","1","d","p","6","8","g","u","p","6","9","u","h","k","y","6","t","5","v","d","h","k","j","m","3","w","d","a","h","x","j","m","m","w","5","7","8","x","u","q">>, utf8 |-> TRUE,
     text |-> <<"h","t","t","p",":","/","/","b","i","t","c","o","i","n",".","o","n","i","o","n">>],
    [code |-> <<"l","n","u","r","l","1","w","f","s","k","u","e","r","0","d","5","s","x","g","c","t","5","v","y","e","c","n","p","z","w">>, utf8 |-> TRUE,
     text |-> <<"r","a","n","d","o","m"," ","d","a","t","a">>],
    [code |-> <<"l","n","u","r","l","1","d","p","6","8","g","u","p","6","9","u","h","k","w","t","n","0","d","e","5","k","7","m","s","2","f","2","n","x","3">>, utf8 |-> TRUE,
     text |-> <<"h","t","t","p",":","/","/","g",".","o","n","i","o","n">>],
    [code |-> <<"l","n","u","r","l","1","d","p","6","8","g","u","p","6","9","u","h","k","z","t","n","z","l","9","0","4","0","4">>, utf8 |-> TRUE,
     text |-> <<"h","t","t","p",":","/","/","a",".","b">>],
    [code |-> <<"l","n","u","r","l","1","d","p","6","8","g","u","p","6","9","u","h","k","z","t","n","z","9","a","u","z","u","m","m","w","d","9","h","k","u","3","k","c","j","7","q">>, utf8 |-> TRUE,
     text |-> <<"h","t","t","p",":","/","/","a",".","b","/","x",".","o","n","i","o","n">>],
    [code |-> <<"l","n","u","r","l","1","l","l","l","q","9","5","y","n","5","p">>, utf8 |-> FALSE, text |-> <<>>] }

\* bech32Decode accepting codewords written in lower case only
bech32DecodeLowerOnly(data) ==
  LET hits == {w \in Bech32Codewords : w.code = data}
  IN IF hits # {}
     THEN LET w == CHOOSE x \in hits : TRUE
          IN [ok |-> w.utf8, text |-> w.text]
     ELSE [ok |-> FALSE, text |-> <<>>]

\* bech32Decode(data): bech32.decode accepts a codeword written all in lower
\* case or all in upper case; a failed decode throws (ok = FALSE).
bech32Decode(data) ==
  LET lower == toLowerCase(data)
      hits == {w \in Bech32Codewords : w.code = lower}
  IN IF (data = lower \/ data = toUpperCase(data)) /\ hits # {}
     THEN LET w == CHOOSE x \in hits : TRUE
          IN [ok |-> w.utf8, text |-> w.text]
     ELSE [ok |-> FALSE, text |-> <<>>]

No == [isLnurl |-> "No", lnurl |-> <<>>]

\* the try block of decodeLnurl is left by a throw
Thrown == [isLnurl |-> "throw", lnurl |-> <<>>]

\* The bech32 branch shared by the lightning: and the bare lnurl forms; a
\* throw of bech32Decode leaves the try block.
DecodeBech32Lnurl(lnurl) ==
  LET result == bech32Decode(lnurl) IN
    IF ~result.ok THEN Thrown
    ELSE IF isValidLnurl(result.text)
    THEN [isLnurl |-> "Yes", lnurl |-> result.text]
    ELSE No

\* The try block of decodeLnurl: a truthy value that is no string has no
\* toLowerCase method, and the call of it throws a TypeError.
decodeLnurlTry(lnurlCandidate) ==
  IF ~IsString(lnurlCandidate) THEN Thrown
  ELSE LET candidate == lnurlCandidate.s
           lowercase == toLowerCase(candidate) IN
    IF startsWith(lowercase, sLightning)
    THEN DecodeBech32Lnurl(slice(candidate, Len(sLightning)))
    ELSE IF startsWith(lowercase, sLnurlw)
    THEN [isLnurl |-> "Yes",
          lnurl |-> (IF _isOnion(candidate) THEN sHttp ELSE sHttps) \o slice(candidate, 9)]
    ELSE IF startsWith(lowercase, sLnurl) /\ indexOf(lowercase, sColon) = -1
    THEN DecodeBech32Lnurl(candidate)
    ELSE IF startsWith(lowercase, sHttps)
    THEN [isLnurl |-> "Maybe", lnurl |-> candidate]
    ELSE IF startsWith(lowercase, sHttp)
    THEN IF _isOnion(candidate)
         THEN [isLnurl |-> "Maybe", lnurl |-> candidate]
         ELSE No
    ELSE No

\* a catch clause that lets the throw through
SquelchRethrows(completion) == completion

\* catch { /* Squelch */ } and the return that follows it
Squelch(completion) == IF completion = Thrown THEN No ELSE completion

\* decodeLnurl(lnurlCandidate)
decodeLnurl(lnurlCandidate) ==
  IF ~Truthy(lnurlCandidate) THEN No
  ELSE Squelch(decodeLnurlTry(lnurlCandidate))

(***************************************************************************)
(* Values handed to decodeLnurl and to _isOnion.                           *)
(***************************************************************************)
\* the prefixes the decoder looks for, in both cases, and no prefix
Prefixes ==
  { <<>>, sLightning, toUpperCase(sLightning), sLnurlw, toUpperCase(sLnurlw), sLnurl,
    sHttps, toUpperCase(sHttps), sHttp, toUpperCase(sHttp) }

\* what follows the prefixes: nothing, host names, the codewords in lower and
\* in upper case, a codeword in mixed case and one with a wrong checksum
Bodies ==
  { <<>>, <<"a",".","b">>, <<"g",".","o","n","i","o","n">>, <<"G",".","O","N","I","O","N">>,
    <<"l","n","u","r","l","1","D","P","6","8","G","U","R","N","8","G","H","J","7","C","N","F","W","3","3","K","7","6","T","W","9","E","H","H","Y","E","C","K","Q","6","8","6","4">>,
    <<"l","n","u","r","l","1","d","p","6","8","g","u","r","n","8","g","h","j","7","c","n","f","w","3","3","k","7","6","t","w","9","e","h","h","y","e","c","k","q","6","8","6","5">> }
  \cup {w.code : w \in Bech32Codewords}
  \cup {toUpperCase(w.code) : w \in Bech32Codewords}

\* pieces of a path, a query and a fragment
TailPieces ==
  { <<"/","p">>, <<"?","q">>, <<"/","x",".","o","n","i","o","n">>,
    <<"/","x",".","O","N","I","O","N">>, <<"#","f">> }

\* the concatenations of up to n tail pieces
RECURSIVE Tails(_)
Tails(n) ==
  IF n = 0 THEN {<<>>}
  ELSE Tails(n - 1) \cup {t \o x : t \in Tails(n - 1), x \in TailPieces}

\* the strings of the model: up to two prefixes, a body and a tail
CandidateStrings ==
  {p1 \o p2 \o b \o t : p1 \in Prefixes, p2 \in Prefixes, b \in Bodies, t \in Tails(MaxTail)}

\* the values handed to decodeLnurl: strings and values that are no strings
Candidates ==
  {Undefined, Null, Num(<<"0">>), Num(<<"5">>), Object} \cup {Str(c) : c \in CandidateStrings}

\* decodeLnurl / _isOnion was not called
NotDecoded == [isLnurl |-> "none", lnurl |-> <<>>]
NotTested == [called |-> FALSE, onion |-> FALSE]

(***************************************************************************)
(* NDEF records and read events handed to the reader by the capability.    *)
(***************************************************************************)
\* Texts written on the tags of the model.
TagTexts ==
  { <<"h","t","t","p","s",":","/","/","a",".","b">>,
    <<"h","t","t","p","s",":","/","/","c",".","d">>,
    <<"l","n","u","r","l","w",":","/","/","e",".","f">>,
    <<"L","I","G","H","T","N","I","N","G",":","L","N","U","R","L","1","D","P","6","8","G","U","P","6","9","U","H","K","W","T","N","0","D","E","5","K","7","M","S","2","F","2","N","X","3">>,
    <<"h","t","t","p",":","/","/","a",".","b">>,
    <<"h","t","t","p",":","/","/","a",".","b","/","x",".","o","n","i","o","n">> }

\* A record: hasData = FALSE is a record without data; bytes are the encoding
\* "enc" of "text", or (valid = FALSE) bytes that are text in no encoding;
\* "encoding" is the label the record declares ("undefined": none).
NoDataRecord ==
  [hasData |-> FALSE, encoding |-> "undefined", valid |-> FALSE, enc |-> "utf-8", text |-> <<>>]

Records ==
  {NoDataRecord}
  \cup {[hasData |-> TRUE, encoding |-> "undefined", valid |-> TRUE, enc |-> "utf-8", text |-> t] :
          t \in TagTexts}
  \cup {[hasData |-> TRUE, encoding |-> "undefined", valid |-> FALSE, enc |-> "utf-8", text |-> <<>>]}
  \cup {[hasData |-> TRUE, encoding |-> "utf-16", valid |-> TRUE, enc |-> "utf-8",
          text |-> <<"h","t","t","p","s",":","/","/","a",".","b">>]}

\* new TextDecoder(record.encoding ?? 'utf-8', { fatal: true }).decode(record.data):
\* bytes that are no text in the declared encoding make a fatal decoder throw;
\* ASCII text read in the other encoding is no ASCII text, so that it matches
\* none of the decoder's prefixes either.
TextDecode(record) ==
  LET label == IF record.encoding = "undefined" THEN "utf-8" ELSE record.encoding
  IN IF record.valid /\ record.enc = label
     THEN [ok |-> TRUE, text |-> record.text]
     ELSE [ok |-> FALSE, text |-> <<>>]

\* _decodeLnurlRecord(record)
_decodeLnurlRecord(record) ==
  IF ~record.hasData THEN No
  ELSE LET recordData == TextDecode(record) IN
    IF recordData.ok THEN decodeLnurl(Str(recordData.text)) ELSE No

\* Read events: shape "ok" is an event whose message.records is an array; the
\* other shapes are the malformed events _onReading rejects.
EventShapes == {"ok", "noEvent", "noMessage", "noRecords", "recordsNotArray"}

RECURSIVE RecordLists(_)
RecordLists(n) ==
  IF n = 0 THEN {<<>>}
  ELSE RecordLists(n - 1)
       \cup {Append(l, r) : l \in {x \in RecordLists(n - 1) : Len(x) = n - 1}, r \in Records}

\* every event of at most MaxRecords records
AllEvents ==
  {[shape |-> "ok", records |-> l] : l \in RecordLists(MaxRecords)}
  \cup {[shape |-> s, records |-> <<>>] : s \in EventShapes \ {"ok"}}

NoEvent == [shape |-> "none", records |-> <<>>]

(***************************************************************************)
(* Faults of the capability's scan and the reasons startListening rejects  *)
(* with.                                                                   *)
(***************************************************************************)
\* dom: the fault is a DOMException; name: its name property
Faults ==
  {[dom |-> TRUE, name |-> n] :
     n \in {"AbortError", "InvalidStateError", "NotAllowedError", "NotSupportedError",
            "SecurityError", ""}}
  \cup {[dom |-> FALSE, name |-> n] : n \in {"TypeError", "AbortError"}}

NoFault == [dom |-> FALSE, name |-> "none"]

\* MapFault without the instanceof DOMException test
MapFaultByNameOnly(e) ==
  IF e.name = "AbortError" THEN [reason |-> "aborted", fault |-> NoFault]
  ELSE IF e.name = "InvalidStateError" THEN [reason |-> "scanInProgress", fault |-> NoFault]
  ELSE IF e.name = "NotAllowedError" THEN [reason |-> "permissionDenied", fault |-> NoFault]
  ELSE IF e.name = "NotSupportedError" THEN [reason |-> "unavailable", fault |-> NoFault]
  ELSE [reason |-> "", fault |-> e]

\* The catch block of startListening: the value the call rejects with. reason
\* is an ErrorReason, or "" when the fault itself is the rejection value.
MapFault(e) ==
  IF e.dom /\ e.name # "" /\ e.name = "AbortError"
    THEN [reason |-> "aborted", fault |-> NoFault]
  ELSE IF e.dom /\ e.name # "" /\ e.name = "InvalidStateError"
    THEN [reason |-> "scanInProgress", fault |-> NoFault]
  ELSE IF e.dom /\ e.name # "" /\ e.name = "NotAllowedError"
    THEN [reason |-> "permissionDenied", fault |-> NoFault]
  ELSE IF e.dom /\ e.name # "" /\ e.name = "NotSupportedError"
    THEN [reason |-> "unavailable", fault |-> NoFault]
  ELSE [reason |-> "", fault |-> e]

(***************************************************************************)
(* State.                                                                  *)
(***************************************************************************)
VARIABLES
  available,        \* this.ndefReader is set: 'NDEFReader' in window
  listening,        \* this.listening
  abortController,  \* this.abortController: index into ctrlAborted, 0 = undefined
  ctrlAborted,      \* the AbortControllers created so far: signal.aborted of each
  scans,            \* the scans requested from the capability, in order
  calls,            \* the startListening calls made, in order
  onces,            \* the listenOnce calls made, in order
  tokens,           \* the caller's AbortSignals: aborted, and the onabort handler
  wired,            \* ndefReader.onreading / onreadingerror are set
  onLnurlRead,      \* this.onLnurlRead
  onReadingError,   \* this.onReadingError
  lastOp,           \* the operation that produced this state
  lastEvent,        \* the event whose dispatch produced this state, if one did
  cbAtEvent,        \* the callbacks registered when lastEvent was dispatched
  invoked           \* what that dispatch did, in order: the calls of the
                    \* caller's callbacks and the settling of listenOnce promises

readerVars ==
  <<available, listening, abortController, ctrlAborted, scans, calls, onces, tokens, wired,
    onLnurlRead, onReadingError, lastOp, lastEvent, cbAtEvent, invoked>>

\* The withdraw client's call.
VARIABLES
  w_pc,         \* where the call is: start, fetch1, json1, fetch2, json2, done
  w_proxy,      \* the proxy argument
  w_invoice,    \* the invoice argument
  w_requests,   \* the calls of fetch, in order: the URL and the options handed to it
  w_json1,      \* the JSON of the round-1 response, once it is parsed
  w_json2,      \* the JSON of the round-2 response, once it is parsed
  w_fail,       \* the value a promise of the transport rejected with
  w_state,      \* the returned promise: pending, resolved or rejected
  w_result,     \* the IPaymentResult the promise resolved to
  w_request2,   \* the parts of the paymentRequest of round 2
  w_called      \* handlePayment was called

withdrawVars ==
  <<w_pc, w_proxy, w_invoice, w_requests, w_json1, w_json2, w_fail, w_state, w_result, w_request2,
    w_called>>

\* The calls of the decoder.
VARIABLES
  d_candidate,  \* the value handed to decodeLnurl or to _isOnion
  d_result,     \* what decodeLnurl returned
  d_onion       \* what _isOnion returned

decodeVars == <<d_candidate, d_result, d_onion>>

vars == <<readerVars, withdrawVars, decodeVars>>

Tokens == 1..MaxTokens

NoInvocation == <<>>

\* A value of the callback fields: undefined, a function of the caller, or the
\* function listenOnce call number once has put there.
NoCallback == [kind |-> "none", once |-> 0]
UserCallback == [kind |-> "user", once |-> 0]
OnceCallback(i) == [kind |-> "once", once |-> i]

\* A signal.onabort handler: none, the one of startListening (abort), or the
\* one of listenOnce call number once.
NoHandler == [kind |-> "none", once |-> 0]
AbortHandler == [kind |-> "abort", once |-> 0]
OnceHandler(i) == [kind |-> "once", once |-> i]

ReaderInit ==
  /\ available \in BOOLEAN
  /\ listening = FALSE
  /\ abortController = 0
  /\ ctrlAborted = <<>>
  /\ scans = <<>>
  /\ calls = <<>>
  /\ onces = <<>>
  /\ tokens = [t \in Tokens |-> [aborted |-> FALSE, onabort |-> NoHandler]]
  /\ wired = FALSE
  /\ onLnurlRead \in {NoCallback, UserCallback}
  /\ onReadingError \in {NoCallback, UserCallback}
  /\ lastOp = [op |-> "new", arg |-> 0]
  /\ lastEvent = NoEvent
  /\ cbAtEvent = [onLnurlRead |-> NoCallback, onReadingError |-> NoCallback]
  /\ invoked = NoInvocation

\* An operation that is no dispatch of an event leaves no record of one.
NoDispatch ==
  /\ lastEvent' = NoEvent
  /\ cbAtEvent' = [onLnurlRead |-> NoCallback, onReadingError |-> NoCallback]
  /\ invoked' = NoInvocation

(***************************************************************************)
(* LnurlReader: startListening, stopListening, _abort.                     *)
(***************************************************************************)
\* The fields of the session that its callbacks and handlers change, and the
\* record of what a dispatch did.
ReaderState ==
  [listening |-> listening, ctrlAborted |-> ctrlAborted, onLnurlRead |-> onLnurlRead,
   onReadingError |-> onReadingError, onces |-> onces, invoked |-> NoInvocation]

\* _abort without its assignment to this.listening
_abortKeepsListening(st) ==
  [st EXCEPT !.ctrlAborted = IF abortController = 0 THEN @
                             ELSE [@ EXCEPT ![abortController] = TRUE]]

\* _abort(reason), run on the fields st
_abort(st) ==
  [st EXCEPT !.ctrlAborted = IF abortController = 0 THEN @
                             ELSE [@ EXCEPT ![abortController] = TRUE],
             !.listening = FALSE]

\* StartListeningBody without the early return of a session that is listening
StartListeningBodyAlwaysScans(t, o, tk) ==
  IF ~available
  THEN /\ calls' = Append(calls, [pc |-> "rejected", token |-> t, scan |-> 0, once |-> o,
                                  reason |-> "unavailable", fault |-> NoFault])
       /\ tokens' = tk
       /\ UNCHANGED <<abortController, ctrlAborted, scans>>
  ELSE /\ ctrlAborted' = Append(ctrlAborted, FALSE)
       /\ abortController' = Len(ctrlAborted) + 1
       /\ tokens' = IF t = 0 THEN tk ELSE [tk EXCEPT ![t].onabort = AbortHandler]
       /\ scans' = Append(scans, [ctrl |-> Len(ctrlAborted) + 1, state |-> "pending",
                                  fault |-> NoFault])
       /\ calls' = Append(calls, [pc |-> "await", token |-> t, scan |-> Len(scans) + 1,
                                  once |-> o, reason |-> "", fault |-> NoFault])

\* The body of startListening(signal) up to its await of ndefReader.scan, run
\* with the signals as they are in tk. t = 0: no signal. o: the listenOnce call
\* that made the call, 0 if the caller made it.
StartListeningBody(t, o, tk) ==
  IF ~available
  THEN /\ calls' = Append(calls, [pc |-> "rejected", token |-> t, scan |-> 0, once |-> o,
                                  reason |-> "unavailable", fault |-> NoFault])
       /\ tokens' = tk
       /\ UNCHANGED <<abortController, ctrlAborted, scans>>
  ELSE IF listening
  THEN /\ calls' = Append(calls, [pc |-> "resolved", token |-> t, scan |-> 0, once |-> o,
                                  reason |-> "", fault |-> NoFault])
       /\ tokens' = tk
       /\ UNCHANGED <<abortController, ctrlAborted, scans>>
  ELSE /\ ctrlAborted' = Append(ctrlAborted, FALSE)
       /\ abortController' = Len(ctrlAborted) + 1
       /\ tokens' = IF t = 0 THEN tk ELSE [tk EXCEPT ![t].onabort = AbortHandler]
       /\ scans' = Append(scans, [ctrl |-> Len(ctrlAborted) + 1, state |-> "pending",
                                  fault |-> NoFault])
       /\ calls' = Append(calls, [pc |-> "await", token |-> t, scan |-> Len(scans) + 1,
                                  once |-> o, reason |-> "", fault |-> NoFault])

\* startListening(signal), up to its await of ndefReader.scan. t = 0: no signal.
StartListening(t) ==
  /\ Len(calls) < MaxCalls
  /\ lastOp' = [op |-> "startListening", arg |-> t]
  /\ StartListeningBody(t, 0, tokens)
  /\ NoDispatch
  /\ UNCHANGED <<available, listening, onces, wired, onLnurlRead, onReadingError>>
  /\ UNCHANGED <<withdrawVars, decodeVars>>

\* The capability's scan of call c resolves, and startListening continues after
\* its await: listening is set and the event handlers are hooked up.
ScanResolves(c) ==
  /\ c \in 1..Len(calls)
  /\ calls[c].pc = "await"
  /\ scans' = [scans EXCEPT ![calls[c].scan].state = "active"]
  /\ listening' = TRUE
  /\ wired' = TRUE
  /\ calls' = [calls EXCEPT ![c].pc = "resolved"]
  /\ lastOp' = [op |-> "scanResolves", arg |-> c]
  /\ NoDispatch
  /\ UNCHANGED <<available, abortController, ctrlAborted, onces, tokens, onLnurlRead,
                 onReadingError>>
  /\ UNCHANGED <<withdrawVars, decodeVars>>

\* A call of a callback of the caller, as a dispatch records it.
LnurlRead(lnurl) ==
  [cb |-> "onLnurlRead", reason |-> "", lnurl |-> lnurl, detail |-> FALSE, once |-> 0]

\* detail: the event is passed along as the second argument
ReadingError(reason, detail) ==
  [cb |-> "onReadingError", reason |-> reason, lnurl |-> <<>>, detail |-> detail, once |-> 0]

\* resolve(lnurl) / reject(reason) of the promise of listenOnce call i, on the
\* fields st; a promise that is settled already stays as it is.
Settle(st, i, state, lnurl, reason, fault) ==
  IF i = 0 \/ st.onces[i].state # "pending" THEN st
  ELSE [st EXCEPT !.onces[i] = [@ EXCEPT !.state = state, !.lnurl = lnurl,
                                         !.reason = reason, !.fault = fault],
                  !.invoked = Append(@, [cb |-> state, reason |-> reason, lnurl |-> lnurl,
                                         detail |-> FALSE, once |-> i])]

\* The capability's scan of call c fails with fault e, and startListening
\* rejects from its catch block; a listenOnce call that made the call rejects
\* with the same value.
ScanRejects(c, e) ==
  /\ c \in 1..Len(calls)
  /\ calls[c].pc = "await"
  /\ scans' = [scans EXCEPT ![calls[c].scan] = [@ EXCEPT !.state = "failed", !.fault = e]]
  /\ calls' = [calls EXCEPT ![c] = [@ EXCEPT !.pc = "rejected",
                                              !.reason = MapFault(e).reason,
                                              !.fault = MapFault(e).fault]]
  /\ onces' = Settle(ReaderState, calls[c].once, "rejected", <<>>, MapFault(e).reason,
                     MapFault(e).fault).onces
  /\ lastOp' = [op |-> "scanRejects", arg |-> c]
  /\ NoDispatch
  /\ UNCHANGED <<available, listening, abortController, ctrlAborted, tokens, wired,
                 onLnurlRead, onReadingError>>
  /\ UNCHANGED <<withdrawVars, decodeVars>>

\* stopListening()
StopListening ==
  /\ ctrlAborted' = _abort(ReaderState).ctrlAborted
  /\ listening' = _abort(ReaderState).listening
  /\ lastOp' = [op |-> "stopListening", arg |-> 0]
  /\ NoDispatch
  /\ UNCHANGED <<available, abortController, scans, calls, onces, tokens, wired,
                 onLnurlRead, onReadingError>>
  /\ UNCHANGED <<withdrawVars, decodeVars>>

\* The caller assigns the public callback fields.
SetCallbacks(r, e) ==
  /\ <<r, e>> # <<onLnurlRead, onReadingError>>
  /\ onLnurlRead' = r
  /\ onReadingError' = e
  /\ lastOp' = [op |-> "setCallbacks", arg |-> 0]
  /\ NoDispatch
  /\ UNCHANGED <<available, listening, abortController, ctrlAborted, scans, calls, onces,
                 tokens, wired>>
  /\ UNCHANGED <<withdrawVars, decodeVars>>

(***************************************************************************)
(* LnurlReader: listenOnce.                                                *)
(***************************************************************************)
\* Done without the stopListening() of a session that was not listening
DoneKeepsListening(st, i) ==
  [st EXCEPT !.onLnurlRead = st.onces[i].existingOnLnurlRead,
             !.onReadingError = st.onces[i].existingOnReadingError]

\* done() of listenOnce call i, on the fields st
Done(st, i) ==
  LET stopped == IF ~st.onces[i].wasListening THEN _abort(st) ELSE st
  IN [stopped EXCEPT !.onLnurlRead = st.onces[i].existingOnLnurlRead,
                     !.onReadingError = st.onces[i].existingOnReadingError]

\* Invoke with functions of listenOnce that do not call the callback they replaced
InvokeSkipsExisting(cb, inv, st) ==
  IF cb.kind = "none" THEN st
  ELSE IF cb.kind = "user" THEN [st EXCEPT !.invoked = Append(@, inv)]
  ELSE IF inv.cb = "onLnurlRead"
  THEN Settle(Done(st, cb.once), cb.once, "resolved", inv.lnurl, "", NoFault)
  ELSE Settle(Done(st, cb.once), cb.once, "rejected", <<>>, inv.reason, NoFault)

\* Invoke with a callback of the caller that ends the session
InvokeThenStop(cb, inv, st) ==
  IF cb.kind = "none" THEN st ELSE _abort([st EXCEPT !.invoked = Append(@, inv)])

\* The call inv of the callback cb, on the fields st: a function of the caller
\* is recorded; a function of a listenOnce call calls the callback it replaced,
\* then done(), then resolves (onLnurlRead) or rejects (onReadingError).
RECURSIVE Invoke(_, _, _)
Invoke(cb, inv, st) ==
  IF cb.kind = "none" THEN st
  ELSE IF cb.kind = "user" THEN [st EXCEPT !.invoked = Append(@, inv)]
  ELSE LET i == cb.once
           existing == IF inv.cb = "onLnurlRead" THEN st.onces[i].existingOnLnurlRead
                       ELSE st.onces[i].existingOnReadingError
           restored == Done(Invoke(existing, inv, st), i)
       IN IF inv.cb = "onLnurlRead"
          THEN Settle(restored, i, "resolved", inv.lnurl, "", NoFault)
          ELSE Settle(restored, i, "rejected", <<>>, inv.reason, NoFault)

\* listenOnce(signal), up to the await of the startListening call it makes.
\* t = 0: no signal.
ListenOnce(t) ==
  /\ Len(onces) < MaxOnce
  /\ listening \/ Len(calls) < MaxCalls
  /\ LET i == Len(onces) + 1
         tk == IF t = 0 THEN tokens ELSE [tokens EXCEPT ![t].onabort = OnceHandler(i)]
         once == [existingOnLnurlRead |-> onLnurlRead,
                  existingOnReadingError |-> onReadingError,
                  wasListening |-> listening, token |-> t, state |-> "pending",
                  lnurl |-> <<>>, reason |-> "", fault |-> NoFault]
     IN /\ onLnurlRead' = OnceCallback(i)
        /\ onReadingError' = OnceCallback(i)
        /\ IF listening
           THEN /\ tokens' = tk
                /\ onces' = Append(onces, once)
                /\ UNCHANGED <<abortController, ctrlAborted, scans, calls>>
           ELSE /\ StartListeningBody(t, i, tk)
                /\ onces' = Append(onces, IF available THEN once
                                          ELSE [once EXCEPT !.state = "rejected",
                                                            !.reason = "unavailable"])
  /\ lastOp' = [op |-> "listenOnce", arg |-> t]
  /\ NoDispatch
  /\ UNCHANGED <<available, listening, wired>>
  /\ UNCHANGED <<withdrawVars, decodeVars>>

\* The caller cancels token t: the signal's onabort handler runs, if one is set.
CancelToken(t) ==
  /\ ~tokens[t].aborted
  /\ tokens' = [tokens EXCEPT ![t].aborted = TRUE]
  /\ LET handler == tokens[t].onabort
         st == IF handler.kind = "abort" THEN _abort(ReaderState)
               ELSE IF handler.kind = "once"
               THEN Settle(Done(ReaderState, handler.once), handler.once, "rejected", <<>>,
                           "aborted", NoFault)
               ELSE ReaderState
     IN /\ listening' = st.listening
        /\ ctrlAborted' = st.ctrlAborted
        /\ onLnurlRead' = st.onLnurlRead
        /\ onReadingError' = st.onReadingError
        /\ onces' = st.onces
  /\ lastOp' = [op |-> "cancel", arg |-> t]
  /\ NoDispatch
  /\ UNCHANGED <<available, abortController, scans, calls, wired>>
  /\ UNCHANGED <<withdrawVars, decodeVars>>

(***************************************************************************)
(* LnurlReader: the dispatch of read events, _onReading, _onReadingError.  *)
(***************************************************************************)
\* ScanRecords ending the loop at the first record that is no LnurlResult.No
RECURSIVE ScanRecordsFirstMatch(_, _, _)
ScanRecordsFirstMatch(records, i, alternatives) ==
  IF i > Len(records)
  THEN [yes |-> FALSE, lnurl |-> <<>>, alternatives |-> alternatives]
  ELSE IF ~records[i].hasData
  THEN ScanRecordsFirstMatch(records, i + 1, alternatives)
  ELSE LET decodeResult == _decodeLnurlRecord(records[i]) IN
    IF decodeResult.isLnurl \in {"Yes", "Maybe"}
    THEN [yes |-> TRUE, lnurl |-> decodeResult.lnurl, alternatives |-> alternatives]
    ELSE ScanRecordsFirstMatch(records, i + 1, alternatives)

\* ScanRecords ending the loop, with nothing found, at a record whose bytes
\* are no text in its encoding
RECURSIVE ScanRecordsStopsAtGarbage(_, _, _)
ScanRecordsStopsAtGarbage(records, i, alternatives) ==
  IF i > Len(records)
  THEN [yes |-> FALSE, lnurl |-> <<>>, alternatives |-> alternatives]
  ELSE IF ~records[i].hasData
  THEN ScanRecordsStopsAtGarbage(records, i + 1, alternatives)
  ELSE IF ~TextDecode(records[i]).ok
  THEN [yes |-> FALSE, lnurl |-> <<>>, alternatives |-> <<>>]
  ELSE LET decodeResult == _decodeLnurlRecord(records[i]) IN
    IF decodeResult.isLnurl = "Yes"
    THEN [yes |-> TRUE, lnurl |-> decodeResult.lnurl, alternatives |-> alternatives]
    ELSE IF decodeResult.isLnurl = "Maybe"
    THEN ScanRecordsStopsAtGarbage(records, i + 1, Append(alternatives, decodeResult.lnurl))
    ELSE ScanRecordsStopsAtGarbage(records, i + 1, alternatives)

\* The loop of _onReading over event.message.records, from record i on:
\* yes = a record decoded to LnurlResult.Yes and ended the loop with lnurl;
\* alternatives = the LnurlResult.Maybe values stored so far.
RECURSIVE ScanRecords(_, _, _)
ScanRecords(records, i, alternatives) ==
  IF i > Len(records)
  THEN [yes |-> FALSE, lnurl |-> <<>>, alternatives |-> alternatives]
  ELSE IF ~records[i].hasData
  THEN ScanRecords(records, i + 1, alternatives)
  ELSE LET decodeResult == _decodeLnurlRecord(records[i]) IN
    IF decodeResult.isLnurl = "Yes"
    THEN [yes |-> TRUE, lnurl |-> decodeResult.lnurl, alternatives |-> alternatives]
    ELSE IF decodeResult.isLnurl = "Maybe"
    THEN ScanRecords(records, i + 1, Append(alternatives, decodeResult.lnurl))
    ELSE ScanRecords(records, i + 1, alternatives)

\* OnReadingInvokes without the test of the event's shape
OnReadingInvokesUnchecked(event, r, e) ==
  LET found == ScanRecords(event.records, 1, <<>>) IN
    IF found.yes
    THEN IF r # NoCallback THEN <<LnurlRead(found.lnurl)>> ELSE <<>>
    ELSE IF Len(found.alternatives) > 0
    THEN IF r # NoCallback THEN <<LnurlRead(found.alternatives[1])>> ELSE <<>>
    ELSE IF e # NoCallback THEN <<ReadingError("noLnurlFound", FALSE)>> ELSE <<>>

\* OnReadingInvokes without the return that follows the delivery of an
\* alternative
OnReadingInvokesFallsThrough(event, r, e) ==
  IF event.shape # "ok"
  THEN IF e # NoCallback THEN <<ReadingError("readingError", TRUE)>> ELSE <<>>
  ELSE LET found == ScanRecords(event.records, 1, <<>>) IN
    IF found.yes
    THEN IF r # NoCallback THEN <<LnurlRead(found.lnurl)>> ELSE <<>>
    ELSE (IF Len(found.alternatives) > 0 /\ r # NoCallback
          THEN <<LnurlRead(found.alternatives[1])>> ELSE <<>>)
         \o (IF e # NoCallback THEN <<ReadingError("noLnurlFound", FALSE)>> ELSE <<>>)

\* _onReading(event): the calls it makes of the callback fields, given their
\* values (r = this.onLnurlRead, e = this.onReadingError).
OnReadingInvokes(event, r, e) ==
  IF event.shape # "ok"
  THEN IF e # NoCallback THEN <<ReadingError("readingError", TRUE)>> ELSE <<>>
  ELSE LET found == ScanRecords(event.records, 1, <<>>) IN
    IF found.yes
    THEN IF r # NoCallback THEN <<LnurlRead(found.lnurl)>> ELSE <<>>
    ELSE IF Len(found.alternatives) > 0
    THEN IF r # NoCallback THEN <<LnurlRead(found.alternatives[1])>> ELSE <<>>
    ELSE IF e # NoCallback THEN <<ReadingError("noLnurlFound", FALSE)>> ELSE <<>>

\* The capability has a scan of this session running: one that began and whose
\* cancellation signal is not aborted.
ScanRunning ==
  \E s \in 1..Len(scans) : scans[s].state = "active" /\ ~ctrlAborted[scans[s].ctrl]

\* The calls made run in order on the fields st: each on the callback field
\* it names, as the field is when the call is made.
RECURSIVE RunCalls(_, _)
RunCalls(made, st) ==
  IF made = <<>> THEN st
  ELSE RunCalls(Tail(made),
                Invoke(IF Head(made).cb = "onLnurlRead" THEN st.onLnurlRead
                       ELSE st.onReadingError,
                       Head(made), st))

\* The calls made run on the fields of the session.
Dispatch(made) == RunCalls(made, ReaderState)

\* The fields after a dispatch that left them as st.
Dispatched(st) ==
  /\ listening' = st.listening
  /\ ctrlAborted' = st.ctrlAborted
  /\ onLnurlRead' = st.onLnurlRead
  /\ onReadingError' = st.onReadingError
  /\ onces' = st.onces
  /\ invoked' = st.invoked

\* The capability emits a read event: ndefReader.onreading runs _onReading.
OnReading(event) ==
  /\ wired
  /\ ScanRunning
  /\ lastEvent' = event
  /\ cbAtEvent' = [onLnurlRead |-> onLnurlRead, onReadingError |-> onReadingError]
  /\ Dispatched(Dispatch(OnReadingInvokes(event, onLnurlRead, onReadingError)))
  /\ lastOp' = [op |-> "onReading", arg |-> 0]
  /\ UNCHANGED <<available, abortController, scans, calls, tokens, wired>>
  /\ UNCHANGED <<withdrawVars, decodeVars>>

\* The capability emits a read-error event: ndefReader.onreadingerror runs
\* _onReadingError.
OnReadingErrorEvent ==
  /\ wired
  /\ ScanRunning
  /\ lastEvent' = [shape |-> "error", records |-> <<>>]
  /\ cbAtEvent' = [onLnurlRead |-> onLnurlRead, onReadingError |-> onReadingError]
  /\ Dispatched(Dispatch(IF onReadingError # NoCallback
                         THEN <<ReadingError("readingError", TRUE)>> ELSE <<>>))
  /\ lastOp' = [op |-> "onReadingError", arg |-> 0]
  /\ UNCHANGED <<available, abortController, scans, calls, tokens, wired>>
  /\ UNCHANGED <<withdrawVars, decodeVars>>

(***************************************************************************)
(* String literals of the withdraw client.                                 *)
(***************************************************************************)
sOK == <<"O","K">>
sERROR == <<"E","R","R","O","R">>
sInvalidResponse == <<"i","n","v","a","l","i","d"," ","r","e","s","p","o","n","s","e">>
sPaymentInitiated == <<"i","n","v","o","i","c","e"," ","p","a","y","m","e","n","t"," ","i","n","i","t","i","a","t","e","d">>
sQuestion == <<"?">>
sAmp == <<"&">>
sK1 == <<"k","1","=">>
sPr == <<"&","p","r","=">>
sUrlParam == <<"?","u","r","l","=">>
sOops == <<"o","o","p","s">>
\* the message of the TypeError the engine throws on a property read of null
sTypeError == <<"T","y","p","e","E","r","r","o","r">>

\* encodeURIComponent(c) of one character: the reserved characters of the
\* model's URLs are percent-encoded, the unreserved ones are kept.
EncodeChar(c) ==
  IF c = ":" THEN <<"%","3","A">>
  ELSE IF c = "/" THEN <<"%","2","F">>
  ELSE IF c = "?" THEN <<"%","3","F">>
  ELSE IF c = "=" THEN <<"%","3","D">>
  ELSE IF c = "&" THEN <<"%","2","6">>
  ELSE <<c>>

\* encodeURIComponent(s)
RECURSIVE encodeURIComponent(_)
encodeURIComponent(s) ==
  IF s = <<>> THEN <<>> ELSE EncodeChar(Head(s)) \o encodeURIComponent(Tail(s))

(***************************************************************************)
(* The transport: what fetch and response.json() can do.                   *)
(***************************************************************************)
\* Values a promise of the transport rejects with: message is the value's
\* message property (a read of it throws when the value is undefined or null).
RejectValues ==
  { [t |-> "Error", message |-> Str(sOops)],
    [t |-> "object", message |-> Undefined],
    [t |-> "string", message |-> Undefined],
    [t |-> "undefined", message |-> Undefined],
    [t |-> "null", message |-> Undefined] }

NoReject == [t |-> "none", message |-> Undefined]

sCallback == <<"h","t","t","p","s",":","/","/","c","b">>
sCallbackQuery == <<"h","t","t","p","s",":","/","/","c","b","?","a","=","b">>
s1234 == <<"1","2","3","4">>

\* JSON values of the round-1 response: t = "object" carries the four
\* properties handleLNURL reads (Undefined: the property is absent); a number
\* has none of them; null has no properties at all.
Round1Json ==
  {[t |-> "object", status |-> st, callback |-> cb, k1 |-> k, reason |-> r] :
     st \in {Undefined, Str(sOK), Str(sERROR), Str(<<"e","r","r","o","r">>)},
     cb \in {Undefined, Str(<<>>), Str(sCallback), Str(sCallbackQuery), Num(<<"5">>)},
     k \in {Undefined, Str(<<>>), Str(s1234), Num(<<"5">>)},
     r \in {Undefined, Str(sOops)}}
  \cup {[t |-> x, status |-> Undefined, callback |-> Undefined, k1 |-> Undefined,
         reason |-> Undefined] : x \in {"null", "number"}}

\* JSON values of the round-2 response
Round2Json ==
  {[t |-> "object", status |-> st, callback |-> Undefined, k1 |-> Undefined, reason |-> r] :
     st \in {Undefined, Str(sOK), Str(sERROR), Str(<<"o","k">>), Num(<<"5">>)},
     r \in {Undefined, Str(sOops)}}
  \cup {[t |-> x, status |-> Undefined, callback |-> Undefined, k1 |-> Undefined,
         reason |-> Undefined] : x \in {"null", "number"}}

NoJson ==
  [t |-> "none", status |-> Undefined, callback |-> Undefined, k1 |-> Undefined,
   reason |-> Undefined]

\* Payment instruments handed to handleLNURL.
Invoices ==
  { <<"a","s","d","f">>,
    <<"l","i","g","h","t","n","i","n","g",":","a","s","d","f">>,
    <<"L","I","G","H","T","N","I","N","G",":","a","s","d","f">>,
    <<"l","i","g","h","t","n","i","n","g",":","l","i","g","h","t","n","i","n","g",":","a">>,
    <<"a"," ","l","i","g","h","t","n","i","n","g",":","b">>,
    <<>> }

sEndpoint == <<"h","t","t","p","s",":","/","/","b","i","t","c","o","i","n",".","o","r","g","/","l","n","u","r","l","w">>
sProxy == <<"/","p","r","o","x","y">>
sUndefined == <<"u","n","d","e","f","i","n","e","d">>

\* Values of the proxy argument: a caller that leaves it out hands undefined.
Proxies == {Undefined, Str(sProxy)}

(***************************************************************************)
(* The withdraw client: handleLNURL and handlePayment.                     *)
(***************************************************************************)
NoResult == [success |-> FALSE, message |-> Undefined]
NoRequest2 == [paymentRequest |-> <<>>, pr |-> <<>>]

WithdrawInit ==
  /\ w_pc = "start"
  /\ w_proxy \in Proxies
  /\ w_invoice \in Invoices
  /\ w_requests = <<>>
  /\ w_json1 = NoJson
  /\ w_json2 = NoJson
  /\ w_fail = NoReject
  /\ w_state = "pending"
  /\ w_result = NoResult
  /\ w_request2 = NoRequest2
  /\ w_called = FALSE

\* return { success, message }
Returns(result) ==
  /\ w_state' = "resolved"
  /\ w_result' = result
  /\ w_pc' = "done"

\* a catch block that starts the call over
CatchesAndRetries(e) ==
  /\ w_state' = w_state
  /\ w_result' = w_result
  /\ w_pc' = "start"

\* catch (e: any) { return { success: false, message: e.message } }: the read
\* of e.message throws when e is undefined or null, and the promise rejects.
Catches(e) ==
  IF e.t \in {"undefined", "null"}
  THEN /\ w_state' = "rejected"
       /\ w_result' = w_result
       /\ w_pc' = "done"
  ELSE Returns([success |-> FALSE, message |-> e.message])

\* the TypeError of a property read from null
TypeError == [t |-> "Error", message |-> Str(sTypeError)]

\* Separator choosing '?' whatever the callback holds
SeparatorAlwaysQuestion(callback) == sQuestion

\* handlePayment: separator
Separator(callback) ==
  IF indexOf(callback, sQuestion) = -1 THEN sQuestion ELSE sAmp

\* handlePayment: invoice.replace('lightning:', '')
PaymentRequestInvoice(invoice) == replaceFirst(invoice, sLightning)

\* handlePayment: paymentRequest
PaymentRequest(callback, k1, invoice) ==
  callback \o Separator(callback) \o sK1 \o k1 \o sPr \o PaymentRequestInvoice(invoice)

\* `${v}`: the string a template literal makes of a value
TemplateString(v) == IF v.t = "undefined" THEN sUndefined ELSE v.s

\* `${proxy}?url=${encodeURIComponent(url)}`
ProxyUrl(proxy, url) == TemplateString(proxy) \o sUrlParam \o encodeURIComponent(url)

\* fetch(url): the call hands fetch the URL and no options
Request(url) == [url |-> url, init |-> Undefined]

\* handleLNURL(lnurl, invoice, proxy), up to its await of fetch
HandleLNURL ==
  /\ w_pc = "start"
  /\ w_requests' = Append(w_requests, Request(ProxyUrl(w_proxy, sEndpoint)))
  /\ w_pc' = "fetch1"
  /\ UNCHANGED <<w_proxy, w_invoice, w_json1, w_json2, w_fail, w_state, w_result, w_request2,
                 w_called>>
  /\ UNCHANGED <<readerVars, decodeVars>>

\* fetch rejects with e in round 1 or round 2
FetchRejects(e) ==
  /\ w_pc \in {"fetch1", "fetch2"}
  /\ w_fail' = e
  /\ Catches(e)
  /\ UNCHANGED <<w_proxy, w_invoice, w_requests, w_json1, w_json2, w_request2, w_called>>
  /\ UNCHANGED <<readerVars, decodeVars>>

\* fetch resolves with a response, and the code calls response.json()
FetchResolves ==
  /\ w_pc \in {"fetch1", "fetch2"}
  /\ w_pc' = IF w_pc = "fetch1" THEN "json1" ELSE "json2"
  /\ UNCHANGED <<w_proxy, w_invoice, w_requests, w_json1, w_json2, w_fail, w_state, w_result,
                 w_request2, w_called>>
  /\ UNCHANGED <<readerVars, decodeVars>>

\* response.json() rejects with e in round 1 or round 2
JsonRejects(e) ==
  /\ w_pc \in {"json1", "json2"}
  /\ w_fail' = e
  /\ Catches(e)
  /\ UNCHANGED <<w_proxy, w_invoice, w_requests, w_json1, w_json2, w_request2, w_called>>
  /\ UNCHANGED <<readerVars, decodeVars>>

\* Json1Resolves going on to round 2 for status "OK" only
Json1ResolvesRequiresOK(j) ==
  /\ w_pc = "json1"
  /\ w_json1' = j
  /\ IF j.t = "null"
     THEN /\ Catches(TypeError)
          /\ UNCHANGED <<w_requests, w_request2, w_called>>
     ELSE IF j.status = Str(sERROR)
     THEN /\ Returns([success |-> FALSE, message |-> j.reason])
          /\ UNCHANGED <<w_requests, w_request2, w_called>>
     ELSE IF ~Truthy(j.callback) \/ ~IsString(j.callback)
             \/ ~Truthy(j.k1) \/ ~IsString(j.k1) \/ j.status # Str(sOK)
     THEN /\ Returns([success |-> FALSE, message |-> Str(sInvalidResponse)])
          /\ UNCHANGED <<w_requests, w_request2, w_called>>
     ELSE /\ w_called' = TRUE
          /\ w_request2' =
               [paymentRequest |-> PaymentRequest(j.callback.s, j.k1.s, w_invoice),
                pr |-> PaymentRequestInvoice(w_invoice)]
          /\ w_requests' =
               Append(w_requests,
                      Request(ProxyUrl(w_proxy,
                                       PaymentRequest(j.callback.s, j.k1.s, w_invoice))))
          /\ w_pc' = "fetch2"
          /\ UNCHANGED <<w_state, w_result>>
  /\ UNCHANGED <<w_proxy, w_invoice, w_json2, w_fail>>
  /\ UNCHANGED <<readerVars, decodeVars>>

\* round 1: response.json() resolves with j; handleLNURL destructures it,
\* checks it and calls handlePayment, which runs up to its await of fetch.
Json1Resolves(j) ==
  /\ w_pc = "json1"
  /\ w_json1' = j
  /\ IF j.t = "null"
     THEN /\ Catches(TypeError)
          /\ UNCHANGED <<w_requests, w_request2, w_called>>
     ELSE IF j.status = Str(sERROR)
     THEN /\ Returns([success |-> FALSE, message |-> j.reason])
          /\ UNCHANGED <<w_requests, w_request2, w_called>>
     ELSE IF ~Truthy(j.callback) \/ ~IsString(j.callback)
             \/ ~Truthy(j.k1) \/ ~IsString(j.k1)
     THEN /\ Returns([success |-> FALSE, message |-> Str(sInvalidResponse)])
          /\ UNCHANGED <<w_requests, w_request2, w_called>>
     ELSE /\ w_called' = TRUE
          /\ w_request2' =
               [paymentRequest |-> PaymentRequest(j.callback.s, j.k1.s, w_invoice),
                pr |-> PaymentRequestInvoice(w_invoice)]
          /\ w_requests' =
               Append(w_requests,
                      Request(ProxyUrl(w_proxy,
                                       PaymentRequest(j.callback.s, j.k1.s, w_invoice))))
          /\ w_pc' = "fetch2"
          /\ UNCHANGED <<w_state, w_result>>
  /\ UNCHANGED <<w_proxy, w_invoice, w_json2, w_fail>>
  /\ UNCHANGED <<readerVars, decodeVars>>

\* PaymentOutcome with success for every status but "ERROR"
PaymentOutcomeDefaultsToSuccess(paymentResult) ==
  IF paymentResult.status = Str(sERROR)
  THEN [success |-> FALSE, message |-> paymentResult.reason]
  ELSE [success |-> TRUE, message |-> Str(sPaymentInitiated)]

\* handlePayment: the outcome for the parsed round-2 response
PaymentOutcome(paymentResult) ==
  IF paymentResult.status = Str(sOK)
  THEN [success |-> TRUE, message |-> Str(sPaymentInitiated)]
  ELSE IF paymentResult.status = Str(sERROR)
  THEN [success |-> FALSE, message |-> paymentResult.reason]
  ELSE [success |-> FALSE, message |-> Str(sInvalidResponse)]

\* round 2: response.json() resolves with j
Json2Resolves(j) ==
  /\ w_pc = "json2"
  /\ w_json2' = j
  /\ IF j.t = "null" THEN Catches(TypeError) ELSE Returns(PaymentOutcome(j))
  /\ UNCHANGED <<w_proxy, w_invoice, w_requests, w_json1, w_fail, w_request2, w_called>>
  /\ UNCHANGED <<readerVars, decodeVars>>

(***************************************************************************)
(* The calls of the decoder.                                               *)
(***************************************************************************)
DecodeInit ==
  /\ d_candidate \in Candidates
  /\ d_result = NotDecoded
  /\ d_onion = NotTested

\* decodeLnurl(d_candidate)
DecodeLnurl ==
  /\ d_result = NotDecoded
  /\ d_result' = decodeLnurl(d_candidate)
  /\ UNCHANGED <<d_candidate, d_onion>>
  /\ UNCHANGED <<readerVars, withdrawVars>>

\* _isOnion(d_candidate): decodeLnurl calls it with a candidate that starts
\* with lnurlw:// or with http://, in either case, and isValidLnurl with a
\* decoded text that starts with http://
IsOnion ==
  /\ d_onion = NotTested
  /\ IsString(d_candidate)
  /\ \/ startsWith(toLowerCase(d_candidate.s), sLnurlw)
     \/ startsWith(toLowerCase(d_candidate.s), sHttp)
  /\ d_onion' = [called |-> TRUE, onion |-> _isOnion(d_candidate.s)]
  /\ UNCHANGED <<d_candidate, d_result>>
  /\ UNCHANGED <<readerVars, withdrawVars>>

(***************************************************************************)
(* Specifications.                                                         *)
(***************************************************************************)
\* The decoder alone.
DecodeNext ==
  \/ DecodeLnurl

\* _isOnion alone.
OnionNext ==
  \/ IsOnion

\* The withdraw client alone: the reader is not used.
WithdrawNext ==
  \/ HandleLNURL
  \/ \E e \in RejectValues : FetchRejects(e)
  \/ FetchResolves
  \/ \E e \in RejectValues : JsonRejects(e)
  \/ \E j \in Round1Json : Json1Resolves(j)
  \/ \E j \in Round2Json : Json2Resolves(j)

\* Events of the lifecycle specification: a confirmed record after a possible
\* one, a possible record alone, no record, and a malformed event.
SomeEvents ==
  { [shape |-> "ok",
     records |-> << [hasData |-> TRUE, encoding |-> "undefined", valid |-> TRUE,
                     enc |-> "utf-8", text |-> <<"h","t","t","p","s",":","/","/","a",".","b">>],
                    [hasData |-> TRUE, encoding |-> "undefined", valid |-> TRUE,
                     enc |-> "utf-8", text |-> <<"l","n","u","r","l","w",":","/","/","e",".","f">>] >>],
    [shape |-> "ok",
     records |-> << [hasData |-> TRUE, encoding |-> "undefined", valid |-> TRUE,
                     enc |-> "utf-8", text |-> <<"h","t","t","p","s",":","/","/","a",".","b">>] >>],
    [shape |-> "ok", records |-> <<>>],
    [shape |-> "noMessage", records |-> <<>>] }

\* Faults of the lifecycle specification: a mapped and an unmapped one.
SomeFaults == {[dom |-> TRUE, name |-> "InvalidStateError"], [dom |-> FALSE, name |-> "TypeError"]}

\* The start of a session under every fault of the capability's scan.
StartNext ==
  \/ StartListening(0)
  \/ \E c \in 1..MaxCalls : ScanResolves(c)
  \/ \E c \in 1..MaxCalls, e \in Faults : ScanRejects(c, e)
  \/ StopListening

\* The reader session: its lifecycle under every interleaving of the caller's
\* operations and the capability's answers; the withdraw client is not called.
ReaderNext ==
  \/ \E t \in 0..MaxTokens : StartListening(t)
  \/ \E c \in 1..MaxCalls : ScanResolves(c)
  \/ \E c \in 1..MaxCalls, e \in SomeFaults : ScanRejects(c, e)
  \/ StopListening
  \/ \E t \in Tokens : CancelToken(t)
  \/ \E t \in 0..MaxTokens : ListenOnce(t)
  \/ \E r \in {NoCallback, UserCallback}, e \in {NoCallback, UserCallback} : SetCallbacks(r, e)
  \/ \E event \in SomeEvents : OnReading(event)
  \/ OnReadingErrorEvent

\* The dispatch of read events: a session started once with the callbacks
\* given to the constructor, and every read event of at most MaxRecords records.
DispatchNext ==
  \/ calls = <<>> /\ StartListening(0)
  \/ \E c \in 1..MaxCalls : ScanResolves(c)
  \/ \E event \in AllEvents : OnReading(event)
  \/ OnReadingErrorEvent

\* Starting again: sessions started with and without a signal, stopped and
\* cancelled, with a capability that grants every scan.
RestartNext ==
  \/ \E t \in 0..MaxTokens : StartListening(t)
  \/ \E c \in 1..MaxCalls : ScanResolves(c)
  \/ StopListening
  \/ \E t \in Tokens : CancelToken(t)

\* listenOnce on a session that may be listening already: its scan granted or
\* refused, and the events of the capability.
OnceNext ==
  \/ StartListening(0)
  \/ ListenOnce(0)
  \/ \E c \in 1..MaxCalls : ScanResolves(c)
  \/ \E c \in 1..MaxCalls, e \in SomeFaults : ScanRejects(c, e)
  \/ \E event \in SomeEvents : OnReading(event)
  \/ OnReadingErrorEvent

\* listenOnce on a session that only listenOnce starts, under every fault of
\* the capability's scan.
OnceFaultNext ==
  \/ \E t \in 0..MaxTokens : ListenOnce(t)
  \/ \E c \in 1..MaxCalls : ScanResolves(c)
  \/ \E c \in 1..MaxCalls, e \in Faults : ScanRejects(c, e)
  \/ \E event \in SomeEvents : OnReading(event)
  \/ OnReadingErrorEvent

Init == ReaderInit /\ WithdrawInit /\ DecodeInit

Next ==
  ReaderNext \/ DispatchNext \/ StartNext \/ RestartNext \/ OnceNext \/ OnceFaultNext
    \/ WithdrawNext \/ DecodeNext \/ OnionNext

Spec == Init /\ [][Next]_vars

\* the decoder is not called
NoDecode == d_candidate = Undefined

\* the reader is constructed and left alone
NoReader == available = TRUE /\ onLnurlRead = NoCallback /\ onReadingError = NoCallback

\* handleLNURL is not called
NoWithdraw == w_proxy = Undefined /\ w_invoice = <<"a","s","d","f">>

WithdrawSpecInit == NoDecode /\ NoReader /\ Init

WithdrawSpec == WithdrawSpecInit /\ [][WithdrawNext]_vars

ReaderSpecInit == NoDecode /\ NoWithdraw /\ Init

ReaderSpec == ReaderSpecInit /\ [][ReaderNext]_vars

StartSpec == ReaderSpecInit /\ [][StartNext]_vars

RestartSpec == ReaderSpecInit /\ [][RestartNext]_vars

OnceSpec == ReaderSpecInit /\ [][OnceNext]_vars

OnceFaultSpec == ReaderSpecInit /\ [][OnceFaultNext]_vars

DispatchSpecInit == ReaderSpecInit /\ available = TRUE

DispatchSpec == DispatchSpecInit /\ [][DispatchNext]_vars

DecodeSpecInit == NoReader /\ NoWithdraw /\ Init

DecodeSpec == DecodeSpecInit /\ [][DecodeNext]_vars

OnionSpec == DecodeSpecInit /\ [][OnionNext]_vars

(***************************************************************************)
(* Properties.                                                             *)
(***************************************************************************)
Min(S) == CHOOSE x \in S : \A y \in S : x <= y

\* the classification of each record of a read event, in received order
Classes(records) == [i \in 1..Len(records) |-> _decodeLnurlRecord(records[i])]

ClassIn(records, c) == {i \in 1..Len(records) : Classes(records)[i].isLnurl = c}

\* C1: for a well-formed read event, with its records classified in received
\* order, a registered onLnurlRead receives the value of the first Confirmed
\* (Yes) record if there is one, even after a Possible (Maybe) record; else the
\* value of the first Possible record if there is one; else a registered
\* onReadingError receives noLnurlFound.
C1_FirstConfirmedElseFirstPossible ==
  (lastOp.op = "onReading" /\ lastEvent.shape = "ok") =>
    LET records == lastEvent.records
        yes == ClassIn(records, "Yes")
        maybe == ClassIn(records, "Maybe")
    IN IF yes # {}
       THEN cbAtEvent.onLnurlRead # NoCallback =>
              invoked = <<LnurlRead(Classes(records)[Min(yes)].lnurl)>>
       ELSE IF maybe # {}
       THEN cbAtEvent.onLnurlRead # NoCallback =>
              invoked = <<LnurlRead(Classes(records)[Min(maybe)].lnurl)>>
       ELSE cbAtEvent.onReadingError # NoCallback =>
              invoked = <<ReadingError("noLnurlFound", FALSE)>>

\* C1 witness: an event whose first record is Possible and whose second is
\* Confirmed was delivered to a registered onLnurlRead.
C1_Witness ==
  /\ lastOp.op = "onReading"
  /\ lastEvent.shape = "ok"
  /\ Len(lastEvent.records) = 2
  /\ Classes(lastEvent.records)[1].isLnurl = "Maybe"
  /\ Classes(lastEvent.records)[2].isLnurl = "Yes"
  /\ invoked = <<LnurlRead(Classes(lastEvent.records)[2].lnurl)>>

\* the rejection value the documented faults are mapped to
ExpectedReason(f) ==
  IF f.dom /\ f.name = "AbortError" THEN "aborted"
  ELSE IF f.dom /\ f.name = "InvalidStateError" THEN "scanInProgress"
  ELSE IF f.dom /\ f.name = "NotAllowedError" THEN "permissionDenied"
  ELSE IF f.dom /\ f.name = "NotSupportedError" THEN "unavailable"
  ELSE ""

\* C2: startListening rejects with unavailable, and never calls scan, when the
\* capability is absent; when the capability's scan fails it rejects with the
\* ErrorReason of the documented DOMException, and with the fault itself,
\* unchanged, for any other fault.
C2_StartRejections ==
  \A c \in 1..Len(calls) :
    /\ ~available =>
         /\ calls[c].pc = "rejected"
         /\ calls[c].reason = "unavailable"
         /\ scans = <<>>
    /\ (calls[c].scan # 0 /\ scans[calls[c].scan].state = "failed") =>
         LET f == scans[calls[c].scan].fault IN
           /\ calls[c].pc = "rejected"
           /\ calls[c].reason = ExpectedReason(f)
           /\ ExpectedReason(f) = "" => calls[c].fault = f
           /\ ExpectedReason(f) # "" => calls[c].fault = NoFault

\* C2 witness: a scan failed with a fault that is no DOMException but is named
\* AbortError, and the call rejected with that fault.
C2_Witness ==
  \E c \in 1..Len(calls) :
    /\ calls[c].pc = "rejected"
    /\ calls[c].scan # 0
    /\ scans[calls[c].scan].fault = [dom |-> FALSE, name |-> "AbortError"]
    /\ calls[c].fault = [dom |-> FALSE, name |-> "AbortError"]

\* C3: the promise of handleLNURL never rejects, whatever the transport does,
\* and a transport or JSON-parse failure yields success = false,
\* isRemoteMessage = false and the failure's message.
C3_NeverRejects ==
  /\ w_state # "rejected"
  /\ (w_state = "resolved" /\ w_fail # NoReject) =>
       w_result = [success |-> FALSE, isRemoteMessage |-> FALSE, message |-> w_fail.message]

\* the round-1 response carries a non-empty string callback and k1
ValidRound1(j) ==
  /\ j.callback.t = "string" /\ j.callback.s # <<>>
  /\ j.k1.t = "string" /\ j.k1.s # <<>>

\* C4: round 2 is issued only after a round-1 response that does not declare
\* status "ERROR" and carries a non-empty string callback and k1; status
\* "ERROR" yields {success: false, isRemoteMessage: true, message: reason}
\* and a missing, empty or non-string callback or k1 yields {success: false,
\* isRemoteMessage: false, message: "invalid response"}, each after exactly
\* one request.
C4_Round1Gate ==
  /\ Len(w_requests) = 2 => (w_json1.status # Str(sERROR) /\ ValidRound1(w_json1))
  /\ (w_json1 # NoJson /\ w_json1.status = Str(sERROR)) =>
       /\ w_result = [success |-> FALSE, isRemoteMessage |-> TRUE, message |-> w_json1.reason]
       /\ Len(w_requests) = 1
  /\ (w_json1 # NoJson /\ w_json1.status # Str(sERROR) /\ ~ValidRound1(w_json1)) =>
       /\ w_result = [success |-> FALSE, isRemoteMessage |-> FALSE,
                      message |-> Str(sInvalidResponse)]
       /\ Len(w_requests) = 1

\* C5: the round-2 response is reduced to {success: true, isRemoteMessage:
\* false, message: "invoice payment initiated"} for status "OK", to {success:
\* false, isRemoteMessage: true, message: reason} for status "ERROR" and to
\* {success: false, isRemoteMessage: false, message: "invalid response"} for
\* every other JSON shape.
C5_Round2Reduction ==
  w_json2 # NoJson =>
    /\ w_state = "resolved"
    /\ w_result =
         IF w_json2.status = Str(sOK)
         THEN [success |-> TRUE, isRemoteMessage |-> FALSE, message |-> Str(sPaymentInitiated)]
         ELSE IF w_json2.status = Str(sERROR)
         THEN [success |-> FALSE, isRemoteMessage |-> TRUE, message |-> w_json2.reason]
         ELSE [success |-> FALSE, isRemoteMessage |-> FALSE, message |-> Str(sInvalidResponse)]

\* the outcome was produced from a response that declares status "ERROR"
FromRemoteError ==
  \/ w_json1.status = Str(sERROR)
  \/ w_json2.status = Str(sERROR)

\* C6: every outcome carries an isRemoteMessage flag, true exactly when the
\* outcome was produced from a response declaring status "ERROR".
C6_RemoteFlag ==
  w_state = "resolved" =>
    /\ "isRemoteMessage" \in DOMAIN w_result
    /\ w_result.isRemoteMessage <=> FromRemoteError

\* the instrument with an occurrence of "lightning:" taken out, or the
\* instrument itself when it holds none
Strippings(invoice) ==
  IF Occurrences(invoice, sLightning) = {} THEN {invoice}
  ELSE {SubSeq(invoice, 1, i) \o slice(invoice, i + Len(sLightning)) :
          i \in Occurrences(invoice, sLightning)}

C8_StripLeadingOnly ==
  w_called =>
    w_request2.pr = IF startsWith(w_invoice, sLightning)
                    THEN slice(w_invoice, Len(sLightning))
                    ELSE w_invoice

\* C9: once a startListening(token) call has resolved, cancelling the token
\* stops the session as stopListening() does: isListening is false and the
\* signal handed to the call's scan is aborted.
C9_CancelStops ==
  \A c \in 1..Len(calls) :
    (lastOp.op = "cancel" /\ calls[c].token = lastOp.arg /\ calls[c].pc = "resolved") =>
      /\ ~listening
      /\ calls[c].scan # 0 => ctrlAborted[scans[calls[c].scan].ctrl]

\* C10: after stopListening() returns, isListening is false and the signal of
\* every scan the session has requested, and that did not fail, is aborted.
C10_StopAbortsEveryScan ==
  lastOp.op = "stopListening" =>
    /\ ~listening
    /\ \A s \in 1..Len(scans) : scans[s].state # "failed" => ctrlAborted[scans[s].ctrl]

\* C11: stopListening() can be called in every state of the session, leaves
\* isListening false, and called again right after leaves the session as the
\* first call left it.
C11_StopTotalIdempotent ==
  /\ ENABLED StopListening
  /\ lastOp.op = "stopListening" =>
       /\ ~listening
       /\ _abort(ReaderState) = ReaderState

\* C11 witness: stopListening() was called on a session whose start failed.
C11_Witness ==
  /\ lastOp.op = "stopListening"
  /\ \E c \in 1..Len(calls) : calls[c].pc = "rejected" /\ calls[c].scan # 0

\* C12: isListening is false on a new session, is true only with a scan of a
\* startListening call that has resolved, is false after stopListening() and
\* after the cancellation of a token handed to startListening, and is never
\* true without the capability.
C12_ListeningLifecycle ==
  /\ lastOp.op = "new" => ~listening
  /\ listening => \E c \in 1..Len(calls) :
                     /\ calls[c].pc = "resolved"
                     /\ calls[c].scan # 0
                     /\ scans[calls[c].scan].state = "active"
  /\ lastOp.op = "stopListening" => ~listening
  /\ (lastOp.op = "cancel" /\ \E c \in 1..Len(calls) :
                               calls[c].token = lastOp.arg /\ calls[c].once = 0)
       => ~listening
  /\ ~available => ~listening

\* C13: startListening called while isListening is true resolves, requests no
\* scan, keeps the AbortController, wires nothing and leaves the session as it
\* was.
C13_StartWhileListeningNoOp ==
  [][\A t \in 0..MaxTokens :
       (listening /\ StartListening(t)) =>
         /\ calls'[Len(calls')].pc = "resolved"
         /\ UNCHANGED <<listening, abortController, ctrlAborted, scans, wired, tokens,
                        onLnurlRead, onReadingError, onces>>]_vars

\* C13 witness: a startListening call returned at once on a listening session.
C13_Witness ==
  /\ lastOp.op = "startListening"
  /\ listening
  /\ Len(scans) = 1
  /\ calls[Len(calls)].pc = "resolved"
  /\ calls[Len(calls)].scan = 0

\* C14: at any time at most one scan of the session is requested (pending or
\* active) with a signal that is not aborted.
C14_OneScanAtATime ==
  Cardinality({s \in 1..Len(scans) :
                 scans[s].state \in {"pending", "active"} /\ ~ctrlAborted[scans[s].ctrl]}) <= 1

\* C15: with callbacks of the caller registered, the dispatch of a read event
\* or of a read-error event changes neither isListening nor the callbacks, and
\* leaves the session listening with its scan running, so that a later event is
\* dispatched to the same callbacks.
C15_EventsKeepSession ==
  /\ [](lastOp.op \in {"onReading", "onReadingError"} =>
         /\ listening
         /\ wired
         /\ ScanRunning
         /\ onLnurlRead = cbAtEvent.onLnurlRead
         /\ onReadingError = cbAtEvent.onReadingError)
  /\ [][(lastOp'.op \in {"onReading", "onReadingError"}
          /\ onLnurlRead.kind # "once" /\ onReadingError.kind # "once") =>
           UNCHANGED <<listening, onLnurlRead, onReadingError>>]_vars

\* C15 witness: a read event was delivered to the caller's onLnurlRead and the
\* session is still listening.
C15_Witness ==
  /\ lastOp.op = "onReading"
  /\ invoked = <<LnurlRead(<<"h","t","t","p","s",":","/","/","a",".","b">>)>>
  /\ listening
  /\ onLnurlRead = UserCallback

\* C16: a read event that is absent, has no message, no records or records
\* that are no array gives onReadingError(readingError, event) and no other
\* call; a well-formed event without records gives onReadingError(noLnurlFound).
C16_MalformedAndEmptyEvents ==
  lastOp.op = "onReading" =>
    /\ lastEvent.shape # "ok" =>
         invoked = IF cbAtEvent.onReadingError # NoCallback
                   THEN <<ReadingError("readingError", TRUE)>> ELSE <<>>
    /\ (lastEvent.shape = "ok" /\ lastEvent.records = <<>>) =>
         invoked = IF cbAtEvent.onReadingError # NoCallback
                   THEN <<ReadingError("noLnurlFound", FALSE)>> ELSE <<>>

\* C16 witness: an event whose records are no array reached onReadingError.
C16_Witness ==
  /\ lastOp.op = "onReading"
  /\ lastEvent.shape = "recordsNotArray"
  /\ invoked = <<ReadingError("readingError", TRUE)>>

\* what a read event calls for: the endpoint of its first Confirmed record,
\* else of its first Possible record, else the error it is reported with
Outcome(event) ==
  IF event.shape # "ok"
  THEN [kind |-> "error", lnurl |-> <<>>, reason |-> "readingError", detail |-> TRUE]
  ELSE LET yes == ClassIn(event.records, "Yes")
           maybe == ClassIn(event.records, "Maybe")
       IN IF yes # {}
          THEN [kind |-> "lnurl", lnurl |-> Classes(event.records)[Min(yes)].lnurl,
                reason |-> "", detail |-> FALSE]
          ELSE IF maybe # {}
          THEN [kind |-> "lnurl", lnurl |-> Classes(event.records)[Min(maybe)].lnurl,
                reason |-> "", detail |-> FALSE]
          ELSE [kind |-> "error", lnurl |-> <<>>, reason |-> "noLnurlFound", detail |-> FALSE]

\* the settling of the promise of listenOnce call i, as a dispatch records it
Resolved(i, lnurl) ==
  [cb |-> "resolved", reason |-> "", lnurl |-> lnurl, detail |-> FALSE, once |-> i]

Rejected(i, reason) ==
  [cb |-> "rejected", reason |-> reason, lnurl |-> <<>>, detail |-> FALSE, once |-> i]

\* C17: an event dispatched to the function a pending listenOnce call has
\* registered first calls the callback that call replaced, if there was one,
\* with the endpoint (or with the reason and detail of the error), and then
\* resolves the promise with that endpoint (or rejects it with that reason).
C17_OnceChainsThenSettles ==
  [][\A i \in 1..Len(onces) :
       (lastOp'.op \in {"onReading", "onReadingError"} /\ onces[i].state = "pending") =>
         LET out == Outcome(lastEvent') IN
           /\ (out.kind = "lnurl" /\ onLnurlRead = OnceCallback(i)) =>
                /\ onces'[i].state = "resolved"
                /\ onces'[i].lnurl = out.lnurl
                /\ \E k \in 1..Len(invoked') :
                     /\ invoked'[k] = Resolved(i, out.lnurl)
                     /\ onces[i].existingOnLnurlRead = UserCallback =>
                          (k > 1 /\ invoked'[k - 1] = LnurlRead(out.lnurl))
                     /\ onces[i].existingOnLnurlRead = NoCallback => k = 1
           /\ (out.kind = "error" /\ onReadingError = OnceCallback(i)) =>
                /\ onces'[i].state = "rejected"
                /\ onces'[i].reason = out.reason
                /\ \E k \in 1..Len(invoked') :
                     /\ invoked'[k] = Rejected(i, out.reason)
                     /\ onces[i].existingOnReadingError = UserCallback =>
                          (k > 1 /\ invoked'[k - 1] = ReadingError(out.reason, out.detail))
                     /\ onces[i].existingOnReadingError = NoCallback => k = 1]_vars

\* C17 witness: a read event reached the caller's onLnurlRead and then resolved
\* the listenOnce call with the same endpoint.
C17_Witness ==
  /\ lastOp.op = "onReading"
  /\ Len(invoked) = 2
  /\ invoked[1].cb = "onLnurlRead"
  /\ invoked[2] = Resolved(1, invoked[1].lnurl)
  /\ onces[1].state = "resolved"

\* C18: when a listenOnce call settles, resolved or rejected, onLnurlRead and
\* onReadingError are the callbacks registered before the call and isListening
\* is what it was before the call.
C18_OnceRestores ==
  [][\A i \in 1..Len(onces') :
       (onces'[i].state # "pending" /\ (i > Len(onces) \/ onces[i].state = "pending")) =>
         /\ onLnurlRead' = onces'[i].existingOnLnurlRead
         /\ onReadingError' = onces'[i].existingOnReadingError
         /\ listening' = onces'[i].wasListening]_vars

\* C19: cancelling the token handed to a pending listenOnce call rejects the
\* call with aborted, stops the session the call started and restores the
\* callbacks registered before the call.
C19_OnceCancelRejects ==
  [][\A i \in 1..Len(onces) :
       (lastOp'.op = "cancel" /\ onces[i].token = lastOp'.arg /\ onces[i].state = "pending") =>
         /\ onces'[i].state = "rejected"
         /\ onces'[i].reason = "aborted"
         /\ ~onces[i].wasListening => ~listening'
         /\ onLnurlRead' = onces[i].existingOnLnurlRead
         /\ onReadingError' = onces[i].existingOnReadingError]_vars

\* C20: a pending listenOnce call whose scan cannot start rejects with what its
\* startListening call rejects with (the ErrorReason of a documented fault, the
\* fault itself otherwise, unavailable without the capability); the call whose
\* function receives a read error or an event without endpoint rejects with
\* readingError or noLnurlFound, and the session is then not listening if it
\* was not before the call.
C20_OnceRejections ==
  /\ [](\A i \in 1..Len(onces) :
          ~available => onces[i].state = "rejected" /\ onces[i].reason = "unavailable")
  /\ [][\A i \in 1..Len(onces) :
          onces[i].state = "pending" =>
            /\ \A c \in 1..Len(calls) :
                 (lastOp'.op = "scanRejects" /\ lastOp'.arg = c /\ calls[c].once = i) =>
                   LET f == scans'[calls[c].scan].fault IN
                     /\ onces'[i].state = "rejected"
                     /\ onces'[i].reason = ExpectedReason(f)
                     /\ onces'[i].fault = IF ExpectedReason(f) = "" THEN f ELSE NoFault
                     /\ onces'[i].reason = calls'[c].reason
                     /\ onces'[i].fault = calls'[c].fault
            /\ (lastOp'.op \in {"onReading", "onReadingError"}
                /\ onReadingError = OnceCallback(i)
                /\ Outcome(lastEvent').kind = "error") =>
                  /\ onces'[i].state = "rejected"
                  /\ onces'[i].reason = Outcome(lastEvent').reason
                  /\ ~onces[i].wasListening => ~listening']_vars

\* C20 witness: the first event of a listenOnce call on a session that was not
\* listening held no endpoint: the call rejected with noLnurlFound and the
\* session is stopped.
C20_Witness ==
  /\ lastOp.op = "onReading"
  /\ Len(onces) > 0
  /\ ~onces[1].wasListening
  /\ onces[1].state = "rejected"
  /\ onces[1].reason = "noLnurlFound"
  /\ ~listening

\* C21: when handleLNURL is called without a proxy (proxy undefined), round 1
\* requests the endpoint URL itself and round 2 the constructed callback URL
\* itself, each as fetch(url) with no request options.
C21_DirectWithoutProxy ==
  w_proxy = Undefined =>
    /\ Len(w_requests) >= 1 => w_requests[1] = [url |-> sEndpoint, init |-> Undefined]
    /\ Len(w_requests) >= 2 =>
         w_requests[2] = [url |-> w_request2.paymentRequest, init |-> Undefined]

\* the options of a POST of the JSON body {url: target}
PostJson(target) ==
  [method |-> "POST",
   headers |-> [Accept |-> "application/json", ContentType |-> "application/json"],
   body |-> [url |-> target]]

\* C22: when a proxy is configured, the request of each round is a POST to the
\* proxy URL with Accept and Content-Type application/json headers and the
\* JSON body {url: target}, the target being the endpoint in round 1 and the
\* constructed callback URL in round 2; the target is never requested itself.
C22_PostToProxy ==
  w_proxy = Str(sProxy) =>
    /\ Len(w_requests) >= 1 => w_requests[1] = [url |-> sProxy, init |-> PostJson(sEndpoint)]
    /\ Len(w_requests) >= 2 =>
         w_requests[2] = [url |-> sProxy, init |-> PostJson(w_request2.paymentRequest)]
    /\ \A r \in 1..Len(w_requests) :
         w_requests[r].url \notin {sEndpoint, w_request2.paymentRequest}

\* decodeLnurl has returned for the candidate
Decoded == d_result # NotDecoded

\* the candidate is a string that starts, in either case, with prefix
CandidateStartsWith(prefix) ==
  IsString(d_candidate) /\ startsWith(toLowerCase(d_candidate.s), prefix)

\* the candidate has one of the two forms that carry a codeword: it starts
\* with lightning:, or it starts with lnurl and holds no colon
CodewordForm ==
  \/ CandidateStartsWith(sLightning)
  \/ /\ CandidateStartsWith(sLnurl)
     /\ \A i \in 1..Len(d_candidate.s) : d_candidate.s[i] # ":"

\* the codeword of such a candidate
Payload ==
  IF CandidateStartsWith(sLightning) THEN slice(d_candidate.s, Len(sLightning))
  ELSE d_candidate.s

\* C23: decodeLnurl never throws, and undefined, null, the empty string,
\* values that are no strings, and candidates whose codeword is malformed,
\* fails its checksum or decodes to bytes that are no UTF-8 text all yield No.
C23_NeverThrows ==
  Decoded =>
    /\ d_result.isLnurl \in {"No", "Maybe", "Yes"}
    /\ (~IsString(d_candidate) \/ d_candidate.s = <<>>) => d_result = No
    /\ (CodewordForm /\ ~bech32Decode(Payload).ok) => d_result = No

\* C23 witness: decodeLnurl returned No for LIGHTNING: followed by a codeword
\* whose bytes are no UTF-8 text.
C23_Witness ==
  /\ d_candidate = Str(toUpperCase(sLightning) \o <<"L","N","U","R","L","1","L","L","L","Q","9","5","Y","N","5","P">>)
  /\ d_result = No

\* C24: a Yes result carries a value that begins with http:// or https://, and
\* a Maybe result carries the candidate itself.
C24_ResultValues ==
  /\ d_result.isLnurl = "Yes" =>
       \/ startsWith(d_result.lnurl, <<"h","t","t","p",":","/","/">>)
       \/ startsWith(d_result.lnurl, <<"h","t","t","p","s",":","/","/">>)
  /\ d_result.isLnurl = "Maybe" => d_candidate = Str(d_result.lnurl)

\* C24 witness: a Yes result for a candidate in upper case, and the candidate
\* is not what the result carries.
C24_Witness ==
  /\ d_candidate = Str(<<"L","N","U","R","L","W",":","/","/","a",".","b","/","p">>)
  /\ d_result = [isLnurl |-> "Yes", lnurl |-> <<"h","t","t","p","s",":","/","/","a",".","b","/","p">>]

\* the host component of a string: what follows the first "://", or the string
\* from its start when it holds none, up to the first "/", "?" or "#"
Host(s) ==
  LET sep == indexOf(s, <<":","/","/">>)
      rest == IF sep = -1 THEN s ELSE slice(s, sep + 3)
      ends == {i \in 1..Len(rest) : rest[i] \in {"/", "?", "#"}}
  IN IF ends = {} THEN rest ELSE SubSeq(rest, 1, Min(ends) - 1)

\* onion recognition as it is documented: the host component ends with
\* .onion, or .onion/ or .onion? occurs in the string; case-insensitive
OnionRecognized(s) ==
  LET l == toLowerCase(s) IN
    \/ endsWith(Host(l), <<".","o","n","i","o","n">>)
    \/ indexOf(l, <<".","o","n","i","o","n","/">>) >= 0
    \/ indexOf(l, <<".","o","n","i","o","n","?">>) >= 0

\* C25: a candidate of none of the tagged forms (lightning:, lnurlw://, lnurl
\* without a colon) yields Maybe with the candidate unchanged if it starts
\* with https://, or starts with http:// and is onion-recognized; every other
\* such candidate, http:// with a host that is no onion included, yields No.
C25_UntaggedCandidates ==
  (Decoded /\ IsString(d_candidate) /\ ~CodewordForm /\ ~CandidateStartsWith(sLnurlw)) =>
    d_result =
      IF \/ CandidateStartsWith(sHttps)
         \/ CandidateStartsWith(sHttp) /\ OnionRecognized(d_candidate.s)
      THEN [isLnurl |-> "Maybe", lnurl |-> d_candidate.s]
      ELSE No

\* C26: a candidate that starts, in either case, with lnurlw:// always yields
\* Yes, and the value is the candidate with its first 9 characters replaced
\* by http:// if what follows them is onion-recognized and by https://
\* otherwise; the rest is unchanged and no codeword is decoded.
C26_LnurlwAlwaysYes ==
  (Decoded /\ CandidateStartsWith(sLnurlw)) =>
    LET rest == slice(d_candidate.s, 9) IN
      d_result = [isLnurl |-> "Yes",
                  lnurl |-> (IF OnionRecognized(rest) THEN sHttp ELSE sHttps) \o rest]

\* C27: a candidate that starts with lightning: (the codeword is what follows)
\* or starts with lnurl and holds no colon (the codeword is the candidate)
\* yields Yes with the decoded text if and only if the codeword decodes and the
\* text starts with https://, or starts with http:// and is onion-recognized;
\* in every other case it yields No, never Maybe.
C27_CodewordForms ==
  (Decoded /\ CodewordForm) =>
    LET decoded == bech32Decode(Payload) IN
      d_result =
        IF /\ decoded.ok
           /\ \/ startsWith(decoded.text, sHttps)
              \/ startsWith(decoded.text, sHttp) /\ OnionRecognized(decoded.text)
        THEN [isLnurl |-> "Yes", lnurl |-> decoded.text]
        ELSE No

\* the forms of a codeword: in lower and in upper case, each bare, after
\* lightning: and after LIGHTNING:
Forms(code) ==
  {p \o c : p \in {<<>>, sLightning, toUpperCase(sLightning)},
            c \in {toLowerCase(code), toUpperCase(code)}}

\* the text is an endpoint: it starts with https://, or with http:// and its
\* host is an onion
Endpoint(text) ==
  \/ startsWith(text, sHttps)
  \/ startsWith(text, sHttp) /\ endsWith(toLowerCase(Host(text)), sOnionEnd)

\* C28: for a codeword of an endpoint, its lower-case and its upper-case form,
\* each bare, after lightning: and after LIGHTNING:, all yield Yes with that
\* endpoint.
C28_CaseInsensitive ==
  \A w \in Bech32Codewords :
    (Decoded /\ w.utf8 /\ Endpoint(w.text) /\ IsString(d_candidate)
       /\ d_candidate.s \in Forms(w.code)) =>
      d_result = [isLnurl |-> "Yes", lnurl |-> w.text]

\* C28 witness: LIGHTNING: followed by the upper-case codeword of
\* http://g.onion yielded that endpoint.
C28_Witness ==
  /\ d_candidate = Str(toUpperCase(sLightning) \o <<"L","N","U","R","L","1","D","P","6","8","G","U","P","6","9","U","H","K","W","T","N","0","D","E","5","K","7","M","S","2","F","2","N","X","3">>)
  /\ d_result = [isLnurl |-> "Yes", lnurl |-> <<"h","t","t","p",":","/","/","g",".","o","n","i","o","n">>]

\* C29: a string that holds neither .onion/ nor .onion? is recognized as an
\* onion, whatever its case, if and only if its host component ends with
\* .onion; a .onion that ends only the path or the query of another host does
\* not count.
C29_OnionByHost ==
  LET l == toLowerCase(d_candidate.s) IN
    (d_onion.called /\ indexOf(l, sOnionSlash) = -1 /\ indexOf(l, sOnionQuery) = -1) =>
      (d_onion.onion <=> endsWith(Host(l), sOnionEnd))

\* the step rejects startListening call c
RejectsCall(c) ==
  /\ c \in 1..Len(calls')
  /\ calls'[c].pc = "rejected"
  /\ c \in 1..Len(calls) => calls[c].pc # "rejected"

\* the step is the success of the scan of call c, a scan whose signal was not
\* aborted
ScanSucceeds(c) ==
  /\ c \in 1..Len(calls)
  /\ calls[c].pc = "await"
  /\ calls'[c].pc = "resolved"
  /\ ~ctrlAborted[scans[calls[c].scan].ctrl]

\* C30: the session is recoverable: when a startListening call has rejected,
\* for whatever reason, and when stopListening() has returned, isListening is
\* false; and a startListening call made on a session that is not listening
\* hands its scan a signal of its own, and the success of that scan leaves
\* isListening true and the cancellation signal of the session not aborted.
C30_Recoverable ==
  [][/\ (\E c \in 1..Len(calls') : RejectsCall(c)) => ~listening'
     /\ lastOp'.op = "stopListening" => ~listening'
     /\ \A c \in 1..Len(calls) :
          ScanSucceeds(c) =>
            /\ listening'
            /\ \A x \in 1..Len(scans) :
                 x # calls[c].scan => scans[x].ctrl # scans[calls[c].scan].ctrl
            /\ abortController' # 0
            /\ ~ctrlAborted'[abortController']]_vars

\* the step is the dispatch of a read or a read-error event
DispatchStep == lastOp'.op \in {"onReading", "onReadingError"}

\* C31: the teardown that stopListening() and the cancellation of the token
\* run releases the dispatch wiring: an event the capability delivers to a
\* session that was started and has been stopped invokes neither onLnurlRead
\* nor onReadingError.
C31_StoppedSessionIsSilent ==
  [][(DispatchStep /\ wired /\ ~listening) => invoked' = NoInvocation]_vars

\* the record has no data, or its bytes are no text in the encoding it
\* declares (UTF-8 when it declares none)
Skipped(record) ==
  \/ ~record.hasData
  \/ ~record.valid
  \/ record.enc # (IF record.encoding = "undefined" THEN "utf-8" ELSE record.encoding)

\* the records of a read event without the skipped ones, in received order
WithoutSkipped(records) == SelectSeq(records, LAMBDA r : ~Skipped(r))

\* C32: a record with no data, or whose bytes are no text in its declared
\* encoding, is skipped: the event is dispatched as the event without that
\* record is, so the record yields neither an endpoint nor an error of its
\* own and an endpoint in a later record is delivered.
C32_GarbageRecordsSkipped ==
  (lastOp.op = "onReading" /\ lastEvent.shape = "ok") =>
    invoked = OnReadingInvokes([shape |-> "ok", records |-> WithoutSkipped(lastEvent.records)],
                               cbAtEvent.onLnurlRead, cbAtEvent.onReadingError)

\* C32 witness: an event whose first record holds bytes that are no text and
\* whose second holds https://a.b was dispatched, and onLnurlRead received
\* https://a.b.
C32_Witness ==
  /\ lastOp.op = "onReading"
  /\ lastEvent.shape = "ok"
  /\ Len(lastEvent.records) = 2
  /\ lastEvent.records[1].hasData
  /\ ~lastEvent.records[1].valid
  /\ invoked = <<LnurlRead(<<"h","t","t","p","s",":","/","/","a",".","b">>)>>

\* C33: a handleLNURL call makes at most two requests, the request of round 1
\* before that of round 2 and each once: no request is made after a failure
\* of the transport or after the call has returned, round 2 is requested only
\* on the parsed response of round 1, and a call that ends in round 1 has made
\* exactly one request.
C33_AtMostTwoRequests ==
  [][/\ Len(w_requests') <= 2
     /\ w_requests' # w_requests =>
          /\ w_requests' = Append(w_requests, w_requests'[Len(w_requests')])
          /\ w_fail = NoReject
          /\ w_state = "pending"
          /\ Len(w_requests) = 0 => w_pc' = "fetch1"
          /\ Len(w_requests) = 1 => (w_pc = "json1" /\ w_pc' = "fetch2" /\ w_called')
     /\ (w_state' # "pending" /\ ~w_called') => Len(w_requests') = 1]_vars

\* C33 witness: round 2 failed, and the call returned with two requests made.
C33_Witness ==
  /\ w_pc = "done"
  /\ w_called
  /\ w_fail # NoReject
  /\ Len(w_requests) = 2

\* C34: with both callbacks registered, a read event that _onReading handles
\* results in exactly one call: of onLnurlRead or of onReadingError, never of
\* both and never more than once, however many of its records are Confirmed
\* or Possible.
C34_OneCallPerEvent ==
  (/\ lastOp.op = "onReading"
   /\ cbAtEvent.onLnurlRead = UserCallback
   /\ cbAtEvent.onReadingError = UserCallback) =>
    /\ Len(invoked) = 1
    /\ invoked[1].cb \in {"onLnurlRead", "onReadingError"}

\* C34 witness: an event with two records that are Confirmed or Possible was
\* dispatched to both callbacks, and onLnurlRead was called once.
C34_Witness ==
  /\ lastOp.op = "onReading"
  /\ cbAtEvent.onLnurlRead = UserCallback
  /\ cbAtEvent.onReadingError = UserCallback
  /\ lastEvent.shape = "ok"
  /\ Len(lastEvent.records) = 2
  /\ \A i \in 1..2 : Classes(lastEvent.records)[i].isLnurl \in {"Yes", "Maybe"}
  /\ Len(invoked) = 1
  /\ invoked[1].cb = "onLnurlRead"

\* C35: whenever isListening is true, the signal handed to the most recent
\* scan request is not aborted, also when stopListening() or the cancellation
\* of the token came while startListening awaited the scan and the scan then
\* resolved.
C35_ListeningSignalLive ==
  listening =>
    /\ scans # <<>>
    /\ ~ctrlAborted[scans[Len(scans)].ctrl]

\* C36: handleLNURL returns success = true only if round 1 returned a response
\* that does not declare status "ERROR" and carries a valid callback and k1,
\* round 2 was then requested and its response declared status "OK"; no
\* failure of the transport or of the parsing, no status "ERROR" and no
\* malformed response of either round yields success = true.
C36_SuccessOnlyAfterBothRounds ==
  (w_state = "resolved" /\ w_result.success) =>
    /\ w_fail = NoReject
    /\ w_json1.t = "object"
    /\ w_json1.status # Str(sERROR)
    /\ ValidRound1(w_json1)
    /\ Len(w_requests) = 2
    /\ w_json2.t = "object"
    /\ w_json2.status = Str(<<"O","K">>)

\* C36 witness: the call returned success = true.
C36_Witness ==
  /\ w_state = "resolved"
  /\ w_result.success
  /\ w_json1.status = Undefined
  /\ w_json2.status = Str(<<"O","K">>)

Delivered ==
  {invoked[i].lnurl : i \in {j \in 1..Len(invoked) : invoked[j].cb \in {"onLnurlRead", "resolved"}}}

\* C38: every endpoint delivered to onLnurlRead, or that listenOnce resolves
\* with, is the value of a Confirmed or Possible record of the event being
\* dispatched; it starts, in either case, with https://, or with http:// and
\* is onion-recognized: a plain http:// URL of a host that is no onion, and
\* text that does not decode, are never delivered.
C38_DeliveredEndpoints ==
  lastOp.op = "onReading" =>
    \A lnurl \in Delivered :
      /\ \E i \in 1..Len(lastEvent.records) :
           /\ Classes(lastEvent.records)[i].isLnurl \in {"Yes", "Maybe"}
           /\ Classes(lastEvent.records)[i].lnurl = lnurl
      /\ \/ startsWith(toLowerCase(lnurl), sHttps)
         \/ startsWith(toLowerCase(lnurl), sHttp) /\ OnionRecognized(lnurl)

\* token t was handed to a startListening call that started a scan
StartedScanWith(t) ==
  \E c \in 1..Len(calls) : calls[c].token = t /\ calls[c].scan # 0

\* C39: a token handed to a startListening call that started a scan stays
\* wired to the session: when it is cancelled, also after that scan was stopped
\* and a new scan was started without it, isListening becomes false and the
\* cancellation signal of the scan the session has now is aborted.
C39_TokenStaysWired ==
  [][\A t \in Tokens :
       (/\ StartedScanWith(t)
        /\ ~tokens[t].aborted
        /\ tokens'[t].aborted
        /\ lastOp'.op = "cancel") =>
         /\ ~listening'
         /\ ctrlAborted'[abortController]
         /\ ctrlAborted'[scans[Len(scans)].ctrl]]_vars

====
